---- MODULE Spec2Model ----
(***************************************************************************)
(* The lewoc mobile application: the BLE helpers of mobile/lib/bluetooth.ts *)
(* (scanForDevices, connectToDevice, sendMessageToDevice) and the handlers  *)
(* of the HomeScreen component (app/(tabs)/index.tsx) that drive them.      *)
(*                                                                          *)
(* One step of the model is one JavaScript task: a handler invocation up to *)
(* its first await, a transport callback or promise settlement together     *)
(* with the continuations (microtasks) it releases, or a timer callback.    *)
(* The transport (react-native-ble-plx and the peer) is the environment: it *)
(* chooses advertisements, errors, acknowledgements and link drops.         *)
(***************************************************************************)
EXTENDS Integers, Sequences, FiniteSets, TLC

VARIABLES
    connected,      \* useState(false)
    device,         \* useState<Device | null>(null)
    message,        \* useState("")
    scanning,       \* useState(false)
    sending,        \* useState(false)
    devices,        \* useState<Device[]>([])
    modalVisible,   \* useState(false)
    scanSub,        \* manager: the scanForDevices call whose listener is registered (0: no scan)
    linked,         \* transport: ids of the peers whose link is up
    scans,          \* the scanForDevices calls whose timer is still set, oldest first
    conns,          \* the handleSelectDevice calls awaiting connectToDevice
    sends,          \* the handleSend calls with a race, a timer or a write outstanding
    event,          \* the task that ran last: its call before and after, the alert it raised
    calls,          \* how many times a handler (handleScan, handleSelectDevice, handleSend) was called
    adverts         \* how many advertisements the transport delivered

ui == <<connected, device, message, scanning, sending, devices, modalVisible>>
vars == <<connected, device, message, scanning, sending, devices, modalVisible,
          scanSub, linked, scans, conns, sends, event, calls, adverts>>

----------------------------------------------------------------------------
(* Bounds of the model *)

\* calls of handleScan, handleSelectDevice and handleSend in one run
MaxCalls == 4
\* advertisement callbacks delivered in one run
MaxAds == 2

(* Program constants *)
MAX_LEN == 128

----------------------------------------------------------------------------
(* Values *)

Undefined == "undefined"
\* null, as a value of the Device type
NoDevice == [id |-> "null", name |-> "null"]
\* no Alert.alert call made (yet)
NoAlert == [title |-> "none", message |-> "none"]
\* no rejection (yet)
NoError == [message |-> "none"]
\* a task that belongs to no call
NoCall == [state |-> "none"]

DeviceIds == {"AA:BB", "CC:DD"}
\* the peers in range: one is seen under two names
Device == {[id |-> "AA:BB", name |-> "Node1"],
           [id |-> "AA:BB", name |-> "Node1-dup"],
           [id |-> "CC:DD", name |-> "Node2"]}

\* peers a transport can report: ids are opaque strings to scanForDevices
Peers == Device \cup {[id |-> "7", name |-> "Node7"],
                      [id |-> "10", name |-> "Node10"]}

\* what the transport rejects with: an error with a message, or one without
Errors == {[message |-> "Operation was rejected"], [message |-> Undefined]}

\* A string is the sequence of its UTF-16 code units.

\* the code units String.prototype.trim removes (WhiteSpace and LineTerminator)
WhiteSpace ==
    {9, 10, 11, 12, 13, 32, 160, 5760, 8232, 8233, 8239, 8287, 12288, 65279}
        \cup (8192..8202)

Rep(c, n) == [k \in 1..n |-> c]

\* the texts the user enters in the input: " ", and " \u00E9a...a" followed by
\* U+1F600, whose surrogate pair D83D DE00 is at the units MAX_LEN and
\* MAX_LEN + 1
Texts ==
    { <<32>>,
      <<32, 233>> \o Rep(97, MAX_LEN - 3) \o <<55357, 56832>> }

----------------------------------------------------------------------------
(* Pure helpers *)

\* String.prototype.trim
RECURSIVE TrimStart(_)
TrimStart(s) ==
    IF s # <<>> /\ Head(s) \in WhiteSpace THEN TrimStart(Tail(s)) ELSE s

RECURSIVE TrimEnd(_)
TrimEnd(s) ==
    IF s # <<>> /\ s[Len(s)] \in WhiteSpace
    THEN TrimEnd(SubSeq(s, 1, Len(s) - 1)) ELSE s

Trim(s) == TrimEnd(TrimStart(s))

\* text.slice(0, n)
Slice(s, n) == SubSeq(s, 1, IF Len(s) < n THEN Len(s) ELSE n)

\* the UTF-16 surrogates
IsHighSurrogate(u) == u \in 55296..56319
IsLowSurrogate(u) == u \in 56320..57343

\* the UTF-8 bytes of one code point
Utf8Bytes(cp) ==
    IF cp < 128 THEN <<cp>>
    ELSE IF cp < 2048 THEN <<192 + (cp \div 64), 128 + (cp % 64)>>
    ELSE IF cp < 65536
    THEN <<224 + (cp \div 4096), 128 + ((cp \div 64) % 64), 128 + (cp % 64)>>
    ELSE <<240 + (cp \div 262144), 128 + ((cp \div 4096) % 64),
           128 + ((cp \div 64) % 64), 128 + (cp % 64)>>

\* the concatenation of the sequences chunks[lo], ..., chunks[hi]
RECURSIVE Concat(_, _, _)
Concat(chunks, lo, hi) ==
    IF lo > hi THEN <<>>
    ELSE IF lo = hi THEN chunks[lo]
    ELSE LET mid == (lo + hi) \div 2
         IN  Concat(chunks, lo, mid) \o Concat(chunks, mid + 1, hi)

\* new TextEncoder().encode(msg): a high surrogate followed by a low one is one
\* code point (the bytes are listed at the high one), a surrogate without its
\* partner is replaced by U+FFFD, any other code unit is its own code point
TextEncode(s) ==
    LET bytes == [k \in DOMAIN s |->
            IF IsHighSurrogate(s[k]) /\ k < Len(s) /\ IsLowSurrogate(s[k + 1])
            THEN Utf8Bytes(65536 + (s[k] - 55296) * 1024 + (s[k + 1] - 56320))
            ELSE IF IsLowSurrogate(s[k]) /\ k > 1 /\ IsHighSurrogate(s[k - 1])
            THEN <<>>
            ELSE IF IsHighSurrogate(s[k]) \/ IsLowSurrogate(s[k])
            THEN Utf8Bytes(65533)
            ELSE Utf8Bytes(s[k])]
    IN  Concat(bytes, 1, Len(s))

\* binary += String.fromCharCode(utf8Bytes[i]) for every byte
BinaryString(bytes) == [k \in DOMAIN bytes |-> bytes[k] % 65536]

\* the index of "=" after the 64 characters of the base64 alphabet
Pad == 64

\* btoa(binary), as indices into the base64 alphabet: every three code units
\* (all below 256) give four characters, a last group of one or two is padded
Btoa(b) ==
    LET at(k) == IF k <= Len(b) THEN b[k] ELSE 0
    IN  [j \in 1..(4 * ((Len(b) + 2) \div 3)) |->
            LET k == 3 * ((j - 1) \div 4) + 1
                c == (j - 1) % 4
            IN  IF c = 0 THEN at(k) \div 4
                ELSE IF c = 1 THEN ((at(k) % 4) * 16) + (at(k + 1) \div 16)
                ELSE IF c = 2
                THEN IF k + 1 > Len(b) THEN Pad
                     ELSE ((at(k + 1) % 16) * 4) + (at(k + 2) \div 64)
                ELSE IF k + 2 > Len(b) THEN Pad ELSE at(k + 2) % 64]

\* base64Msg of sendMessageToDevice
Base64Msg(msg) == Btoa(BinaryString(TextEncode(msg)))

\* e?.message ?? fallback
AlertMessage(e, fallback) ==
    IF e.message = Undefined THEN fallback ELSE e.message

Alert(title, text) == [title |-> title, message |-> text]

Ids(list) == {list[k].id : k \in DOMAIN list}

----------------------------------------------------------------------------
(* State after construction of the component and of the module's manager *)

Ev(task, was, call, alert) ==
    [task |-> task, was |-> was, call |-> call, alert |-> alert]

Init ==
    /\ connected = FALSE
    /\ device = NoDevice
    /\ message = <<>>
    /\ scanning = FALSE
    /\ sending = FALSE
    /\ devices = <<>>
    /\ modalVisible = FALSE
    /\ scanSub = 0
    /\ linked = {}
    /\ scans = <<>>
    /\ conns = <<>>
    /\ sends = <<>>
    /\ event = Ev("init", NoCall, NoCall, NoAlert)
    /\ calls = 0
    /\ adverts = 0

\* a handler is entered
Enter == calls < MaxCalls /\ calls' = calls + 1 /\ UNCHANGED adverts

\* a call that is over leaves the model: nothing refers to it any more
Drop(q, i) == SubSeq(q, 1, i - 1) \o SubSeq(q, i + 1, Len(q))

\* timers set with the same delay fire in the order they were set
FirstTimer(q, i) == q[i].timer /\ \A j \in 1..(i - 1) : ~q[j].timer

----------------------------------------------------------------------------
(* scanForDevices and handleScan *)

\* a dedupe that keeps the last advertisement of an id instead of the first
CollectLastWins(found, dev) ==
    IF dev = NoDevice THEN found
    ELSE IF dev.id \in Ids(found)
    THEN [k \in DOMAIN found |-> IF found[k].id = dev.id THEN dev ELSE found[k]]
    ELSE Append(found, dev)

\* the scan callback's dedupe: if (device && !found[device.id]) found[device.id] = device
Collect(found, dev) ==
    IF dev # NoDevice /\ dev.id \notin Ids(found) THEN Append(found, dev) ELSE found

\* the number an id reads as when it is a canonical array index (decimal digits,
\* no leading zero, below 2^32 - 1), -1 for every other id
ArrayIndex(id) ==
    IF id = "7" THEN 7 ELSE IF id = "10" THEN 10 ELSE -1

\* the values under the keys ks, in ascending order of the keys' numbers
RECURSIVE Ascending(_, _)
Ascending(found, ks) ==
    IF ks = {} THEN <<>>
    ELSE LET k == CHOOSE a \in ks :
                    \A b \in ks : ArrayIndex(found[a].id) <= ArrayIndex(found[b].id)
         IN  <<found[k]>> \o Ascending(found, ks \ {k})

\* Object.values(found): the values under the keys that are array indices first,
\* in ascending numeric order, then the values under the other keys in the order
\* the keys were created
ObjectValues(found) ==
    Ascending(found, {k \in DOMAIN found : ArrayIndex(found[k].id) >= 0})
        \o SelectSeq(found, LAMBDA d : ArrayIndex(d.id) < 0)

\* reject(error): settles the call's promise unless it is settled already
Reject(call, e) ==
    IF call.state = "pending"
    THEN [call EXCEPT !.state = "rejected", !.error = e]
    ELSE call

\* a timer callback that resolves only when something was found
ResolveNonEmpty(call, list) ==
    IF call.state = "pending" /\ list # <<>>
    THEN [call EXCEPT !.state = "resolved", !.result = list]
    ELSE call

\* a timer callback that delivers the list whatever happened before
ResolveAlways(call, list) ==
    [call EXCEPT !.state = "resolved", !.result = list]

\* resolve(list): settles the call's promise unless it is settled already
Resolve(call, list) ==
    IF call.state = "pending"
    THEN [call EXCEPT !.state = "resolved", !.result = list]
    ELSE call

\* starts: the startDeviceScan calls made for this scanForDevices call
NewScan ==
    [found |-> <<>>, ads |-> <<>>, state |-> "pending", timer |-> TRUE,
     result |-> <<>>, error |-> NoError, starts |-> 1]

\* handleScan up to its await: setScanning(true), then scanForDevices() starts
\* the scan (the manager keeps one listener: a new scan replaces it) and sets
\* the timer
handleScan ==
    /\ Enter
    /\ scanning' = TRUE
    /\ scans' = Append(scans, NewScan)
    /\ scanSub' = Len(scans) + 1
    /\ event' = Ev("handleScan", NoCall, NewScan, NoAlert)
    /\ UNCHANGED <<connected, device, message, sending, devices, modalVisible,
                   linked, conns, sends>>

\* the scan callback with (null, device); device may be null
ScanAdvertise(i, dev) ==
    /\ scanSub = i
    /\ adverts < MaxAds
    /\ adverts' = adverts + 1
    /\ LET call == [scans[i] EXCEPT !.found = Collect(@, dev),
                                    !.ads = Append(@, dev)] IN
       /\ scans' = [scans EXCEPT ![i] = call]
       /\ event' = Ev("ScanAdvertise", scans[i], call, NoAlert)
    /\ UNCHANGED <<ui, scanSub, linked, conns, sends, calls>>

\* the scan callback with (error, null): stopDeviceScan, reject; handleScan's
\* catch and finally run when the promise rejects
ScanError(i, e) ==
    /\ scanSub = i
    /\ scanSub' = 0
    /\ LET call == Reject(scans[i], e) IN
       /\ scans' = [scans EXCEPT ![i] = call]
       /\ IF call.state # scans[i].state
          THEN /\ event' = Ev("ScanError", scans[i], call,
                              Alert("Bluetooth", AlertMessage(e, "Scan failed")))
               /\ scanning' = FALSE
          ELSE /\ event' = Ev("ScanError", scans[i], call, NoAlert)
               /\ UNCHANGED scanning
    /\ UNCHANGED <<connected, device, message, sending, devices, modalVisible,
                   linked, conns, sends, calls, adverts>>

\* a timer callback that resolves without stopDeviceScan
ScanTimeoutKeepsScan ==
    /\ scans # <<>>
    /\ LET call == [Resolve(scans[1], ObjectValues(scans[1].found))
                        EXCEPT !.timer = FALSE] IN
       /\ scans' = Tail(scans)
       /\ event' = Ev("ScanTimeout", scans[1], call, NoAlert)
       /\ IF call.state # scans[1].state
          THEN /\ devices' = call.result
               /\ modalVisible' = TRUE
               /\ scanning' = FALSE
          ELSE UNCHANGED <<devices, modalVisible, scanning>>
    /\ UNCHANGED <<connected, device, message, sending, scanSub, linked, conns,
                   sends, calls, adverts>>

\* the timer callback of the oldest call: stopDeviceScan,
\* resolve(Object.values(found)); handleScan's continuation and finally run
\* when the promise resolves. The call is over.
ScanTimeout ==
    /\ scans # <<>>
    /\ scanSub' = 0
    /\ LET call == [Resolve(scans[1], ObjectValues(scans[1].found))
                        EXCEPT !.timer = FALSE] IN
       /\ scans' = Tail(scans)
       /\ event' = Ev("ScanTimeout", scans[1], call, NoAlert)
       /\ IF call.state # scans[1].state
          THEN /\ devices' = call.result
               /\ modalVisible' = TRUE
               /\ scanning' = FALSE
          ELSE UNCHANGED <<devices, modalVisible, scanning>>
    /\ UNCHANGED <<connected, device, message, sending, linked, conns, sends, calls, adverts>>

----------------------------------------------------------------------------
(* connectToDevice and handleSelectDevice *)

\* connects, discovers: the device.connect() and
\* discoverAllServicesAndCharacteristics() calls made for this connectToDevice
\* call; overtaken: a handleSelectDevice call made after this one is over
NewConn(d) ==
    [dev |-> d, pc |-> "connecting", error |-> NoError,
     connects |-> 1, discovers |-> 0, overtaken |-> FALSE]

\* the call i is over: it leaves the model, the calls made before it remain
Settle(q, i) ==
    [k \in 1..(Len(q) - 1) |->
        IF k < i THEN [q[k] EXCEPT !.overtaken = TRUE] ELSE q[k + 1]]

\* handleSelectDevice up to its await: setModalVisible(false), then
\* connectToDevice(d) calls device.connect()
handleSelectDevice(d) ==
    /\ Enter
    /\ modalVisible' = FALSE
    /\ conns' = Append(conns, NewConn(d))
    /\ event' = Ev("handleSelectDevice", NoCall, NewConn(d), NoAlert)
    /\ UNCHANGED <<connected, device, message, scanning, sending, devices,
                   scanSub, linked, scans, sends>>

\* a connectToDevice that returns the device as soon as it is connected
ConnectOkExposes(i) ==
    /\ conns[i].pc = "connecting"
    /\ conns' = Drop(conns, i)
    /\ linked' = linked \cup {conns[i].dev.id}
    /\ event' = Ev("SelectSucceeded", conns[i],
                   [conns[i] EXCEPT !.pc = "resolved"], NoAlert)
    /\ device' = conns[i].dev
    /\ connected' = TRUE
    /\ UNCHANGED <<message, scanning, sending, devices, modalVisible,
                   scanSub, scans, sends, calls, adverts>>

\* device.connect() resolves: connectToDevice goes on to the discovery
ConnectOk(i) ==
    /\ conns[i].pc = "connecting"
    /\ conns' = [conns EXCEPT ![i].pc = "discovering", ![i].discovers = @ + 1]
    /\ linked' = linked \cup {conns[i].dev.id}
    /\ event' = Ev("ConnectOk", conns[i], conns'[i], NoAlert)
    /\ UNCHANGED <<ui, scanSub, scans, sends, calls, adverts>>

\* the catch block of handleSelectDevice: connectToDevice rejected with e
SelectFailed(i, e) ==
    /\ conns' = Settle(conns, i)
    /\ event' = Ev("SelectFailed", conns[i],
                   [conns[i] EXCEPT !.pc = "rejected", !.error = e],
                   Alert("Bluetooth", AlertMessage(e, "Failed to connect")))
    /\ connected' = FALSE
    /\ device' = NoDevice
    /\ UNCHANGED <<message, scanning, sending, devices, modalVisible,
                   scanSub, linked, scans, sends, calls, adverts>>

\* the try block of handleSelectDevice after the await: connectToDevice
\* resolved with the device whose services are discovered
SelectSucceeded(i) ==
    /\ conns' = Settle(conns, i)
    /\ event' = Ev("SelectSucceeded", conns[i],
                   [conns[i] EXCEPT !.pc = "resolved"], NoAlert)
    /\ device' = conns[i].dev
    /\ connected' = TRUE
    /\ UNCHANGED <<message, scanning, sending, devices, modalVisible,
                   scanSub, linked, scans, sends, calls, adverts>>

\* a connectToDevice that calls device.connect() once more when it rejects
ConnectFailRetries(i, e) ==
    /\ conns[i].pc = "connecting"
    /\ IF conns[i].connects < 2
       THEN /\ conns' = [conns EXCEPT ![i].connects = @ + 1]
            /\ event' = Ev("ConnectRetry", conns[i], conns'[i], NoAlert)
            /\ UNCHANGED <<ui, scanSub, linked, scans, sends, calls, adverts>>
       ELSE SelectFailed(i, e)

\* device.connect() rejects
ConnectFail(i, e) ==
    /\ conns[i].pc = "connecting"
    /\ SelectFailed(i, e)

\* discoverAllServicesAndCharacteristics() resolves
DiscoverOk(i) ==
    /\ conns[i].pc = "discovering"
    /\ conns[i].dev.id \in linked
    /\ SelectSucceeded(i)

\* discoverAllServicesAndCharacteristics() rejects
DiscoverFail(i, e) ==
    /\ conns[i].pc = "discovering"
    /\ SelectFailed(i, e)

\* the transport link to a peer drops
LinkDrop(id) ==
    /\ id \in linked
    /\ linked' = linked \ {id}
    /\ event' = Ev("LinkDrop", NoCall, NoCall, NoAlert)
    /\ UNCHANGED <<ui, scanSub, scans, conns, sends, calls, adverts>>

----------------------------------------------------------------------------
(* sendMessageToDevice and handleSend *)

\* the rejection of timeoutPromise
TimedOut == [message |-> "Send timed out"]

\* a handleSend call that returned before sendMessageToDevice
Returned(how) ==
    [dev |-> device, text |-> message, msg |-> <<>>, write |-> "none",
     timer |-> FALSE, race |-> how, error |-> NoError, writes |-> 0]

\* a handleSend call awaiting Promise.race([sendPromise, timeoutPromise]):
\* sendMessageToDevice(device, message.trim()) has issued the write and the
\* 3-second timer is set (writes: the characteristic writes made for this call)
Racing ==
    [dev |-> device, text |-> message, msg |-> Trim(message), write |-> "inflight",
     timer |-> TRUE, race |-> "pending", error |-> NoError, writes |-> 1]

\* the call with the base64Msg that sendMessageToDevice(device, msg) hands to
\* writeCharacteristicWithResponseForService
Written(call) == call @@ [payload |-> Base64Msg(call.msg)]

handleSend ==
    /\ Enter
    /\ IF device = NoDevice
       THEN /\ event' = Ev("handleSend", NoCall, Returned("returned"), NoAlert)
            /\ UNCHANGED <<ui, scanSub, linked, scans, conns, sends>>
       ELSE IF Trim(message) = <<>>
       THEN /\ event' = Ev("handleSend", NoCall, Returned("returned"), NoAlert)
            /\ UNCHANGED <<ui, scanSub, linked, scans, conns, sends>>
       ELSE IF Len(message) > MAX_LEN
       THEN /\ event' = Ev("handleSend", NoCall, Returned("invalid"),
                           Alert("Message too long", "Limit is 128 characters."))
            /\ UNCHANGED <<ui, scanSub, linked, scans, conns, sends>>
       ELSE /\ sends' = Append(sends, Racing)
            /\ sending' = TRUE
            /\ event' = Ev("handleSend", NoCall, Written(Racing), NoAlert)
            /\ UNCHANGED <<connected, device, message, scanning, devices,
                           modalVisible, scanSub, linked, scans, conns>>

\* a race that takes every settlement, not only the first
RaceLastWins(call, outcome, e) ==
    [call EXCEPT !.race = outcome, !.error = e]

\* Promise.race: the first settlement wins, later ones are ignored
Race(call, outcome, e) ==
    IF call.race = "pending"
    THEN [call EXCEPT !.race = outcome, !.error = e]
    ELSE call

\* nothing of the call is outstanding
Over(call) == call.race # "pending" /\ ~call.timer /\ call.write # "inflight"

\* a handleSend whose setSending(false) is in the try block, not in finally
AfterRaceNoFinally(task, i, call) ==
    /\ sends' = IF Over(call) THEN Drop(sends, i) ELSE [sends EXCEPT ![i] = call]
    /\ IF call.race = sends[i].race
       THEN /\ event' = Ev(task, sends[i], call, NoAlert)
            /\ UNCHANGED <<message, sending>>
       ELSE IF call.race = "resolved"
       THEN /\ event' = Ev(task, sends[i], call, NoAlert)
            /\ message' = <<>>
            /\ sending' = FALSE
       ELSE /\ event' = Ev(task, sends[i], call,
                    Alert("Send failed",
                          AlertMessage(call.error, "Message was not received in time.")))
            /\ UNCHANGED <<message, sending>>

\* a handleSend that clears the message whatever the outcome of the race
AfterRaceClears(task, i, call) ==
    /\ sends' = IF Over(call) THEN Drop(sends, i) ELSE [sends EXCEPT ![i] = call]
    /\ IF call.race = sends[i].race
       THEN /\ event' = Ev(task, sends[i], call, NoAlert)
            /\ UNCHANGED <<message, sending>>
       ELSE IF call.race = "resolved"
       THEN /\ event' = Ev(task, sends[i], call, NoAlert)
            /\ message' = <<>>
            /\ sending' = FALSE
       ELSE /\ event' = Ev(task, sends[i], call,
                    Alert("Send failed",
                          AlertMessage(call.error, "Message was not received in time.")))
            /\ message' = <<>>
            /\ sending' = FALSE

\* handleSend after the await: setMessage("") when the race resolved, the
\* "Send failed" alert when it rejected, setSending(false) in both cases;
\* nothing when the race was settled before
AfterRace(task, i, call) ==
    /\ sends' = IF Over(call) THEN Drop(sends, i) ELSE [sends EXCEPT ![i] = call]
    /\ IF call.race = sends[i].race
       THEN /\ event' = Ev(task, sends[i], call, NoAlert)
            /\ UNCHANGED <<message, sending>>
       ELSE IF call.race = "resolved"
       THEN /\ event' = Ev(task, sends[i], call, NoAlert)
            /\ message' = <<>>
            /\ sending' = FALSE
       ELSE /\ event' = Ev(task, sends[i], call,
                    Alert("Send failed",
                          AlertMessage(call.error, "Message was not received in time.")))
            /\ UNCHANGED message
            /\ sending' = FALSE

\* the write is acknowledged: sendPromise resolves
WriteAck(i) ==
    /\ sends[i].write = "inflight"
    /\ sends[i].dev.id \in linked
    /\ AfterRace("WriteAck", i,
                 Race([sends[i] EXCEPT !.write = "acked"], "resolved", NoError))
    /\ UNCHANGED <<connected, device, scanning, devices, modalVisible,
                   scanSub, linked, scans, conns, calls, adverts>>

\* a write error that is held back until the timer fires
WriteErrorDeferred(i, e) ==
    /\ sends[i].write = "inflight"
    /\ AfterRace("WriteError", i, [sends[i] EXCEPT !.write = "errored"])
    /\ UNCHANGED <<connected, device, scanning, devices, modalVisible,
                   scanSub, linked, scans, conns, calls, adverts>>

\* the transport reports a write error: sendPromise rejects
WriteError(i, e) ==
    /\ sends[i].write = "inflight"
    /\ AfterRace("WriteError", i,
                 Race([sends[i] EXCEPT !.write = "errored"], "rejected", e))
    /\ UNCHANGED <<connected, device, scanning, devices, modalVisible,
                   scanSub, linked, scans, conns, calls, adverts>>

\* the 3-second timer fires: timeoutPromise rejects
SendTimeout(i) ==
    /\ FirstTimer(sends, i)
    /\ AfterRace("SendTimeout", i,
                 Race([sends[i] EXCEPT !.timer = FALSE], "rejected", TimedOut))
    /\ UNCHANGED <<connected, device, scanning, devices, modalVisible,
                   scanSub, linked, scans, conns, calls, adverts>>

\* an onChangeMessage without the cap
onChangeMessageNoCap(text) ==
    /\ message' = text
    /\ event' = Ev("onChangeMessage", NoCall, [text |-> text], NoAlert)
    /\ UNCHANGED <<connected, device, scanning, sending, devices, modalVisible,
                   scanSub, linked, scans, conns, sends, calls, adverts>>

\* onChangeMessage: the hard cap at MAX_LEN
onChangeMessage(text) ==
    /\ message' = IF Len(text) <= MAX_LEN THEN text ELSE Slice(text, MAX_LEN)
    /\ event' = Ev("onChangeMessage", NoCall, [text |-> text], NoAlert)
    /\ UNCHANGED <<connected, device, scanning, sending, devices, modalVisible,
                   scanSub, linked, scans, conns, sends, calls, adverts>>

\* the Close button of the picker
closeModal ==
    /\ modalVisible
    /\ modalVisible' = FALSE
    /\ event' = Ev("closeModal", NoCall, NoCall, NoAlert)
    /\ UNCHANGED <<connected, device, message, scanning, sending, devices,
                   scanSub, linked, scans, conns, sends, calls, adverts>>

----------------------------------------------------------------------------
(* The screen: which handler a press can reach *)

\* disabled={scanning}
ScanDisabled == scanning

\* a Send button that stays enabled while a send is awaited
SendDisabledIgnoresSending ==
    ~connected \/ Trim(message) = <<>> \/ Len(message) > MAX_LEN

\* disabled={!connected || !message.trim() || sending || message.length > MAX_LEN}
SendDisabled ==
    ~connected \/ Trim(message) = <<>> \/ sending \/ Len(message) > MAX_LEN

\* editable={connected && !sending}
InputEditable == connected /\ ~sending

\* the picker is a Modal over the whole screen: while it is visible only it can
\* be pressed
PressScan == ~modalVisible /\ ~ScanDisabled /\ handleScan

PressDevice(k) == modalVisible /\ handleSelectDevice(devices[k])

PressClose == closeModal

TypeMessage(text) == ~modalVisible /\ InputEditable /\ onChangeMessage(text)

PressSend == ~modalVisible /\ ~SendDisabled /\ handleSend

----------------------------------------------------------------------------
(* The transport's events and the timers *)

Transport ==
    \/ \E i \in DOMAIN scans :
        \/ \E d \in Device \cup {NoDevice} : ScanAdvertise(i, d)
        \/ \E e \in Errors : ScanError(i, e)
    \/ ScanTimeout
    \/ \E i \in DOMAIN conns :
        \/ ConnectOk(i)
        \/ \E e \in Errors : ConnectFail(i, e)
        \/ DiscoverOk(i)
        \/ \E e \in Errors : DiscoverFail(i, e)
    \/ \E id \in DeviceIds : LinkDrop(id)
    \/ \E i \in DOMAIN sends :
        \/ WriteAck(i)
        \/ \E e \in Errors : WriteError(i, e)
        \/ SendTimeout(i)

\* the application as the user drives it through the screen
Next ==
    \/ PressScan
    \/ \E k \in DOMAIN devices : PressDevice(k)
    \/ PressClose
    \/ \E t \in Texts : TypeMessage(t)
    \/ PressSend
    \/ Transport

Spec == Init /\ [][Next]_vars

\* handleSend and onChangeMessage called as functions, whatever the Send button
\* (disabled) and the input (editable) allow
NextHandlers ==
    \/ PressScan
    \/ \E k \in DOMAIN devices : PressDevice(k)
    \/ PressClose
    \/ \E t \in Texts : onChangeMessage(t)
    \/ handleSend
    \/ Transport

SpecHandlers == Init /\ [][NextHandlers]_vars

\* scanForDevices and handleScan against a transport that reports any peer
NextScan ==
    \/ PressScan
    \/ PressClose
    \/ \E i \in DOMAIN scans :
        \/ \E d \in Peers \cup {NoDevice} : ScanAdvertise(i, d)
        \/ \E e \in Errors : ScanError(i, e)
    \/ ScanTimeout

SpecScan == Init /\ [][NextScan]_vars

\* what onChangeMessage can be called with: the texts above, the empty text,
\* MAX_LEN + 1 spaces
Inputs == Texts \cup {<<>>, Rep(32, MAX_LEN + 1)}

\* the component without a session or with a session to the first peer,
\* nothing else going on
InitSession ==
    /\ device \in {NoDevice, [id |-> "AA:BB", name |-> "Node1"]}
    /\ connected = (device # NoDevice)
    /\ linked = IF device = NoDevice THEN {} ELSE {device.id}
    /\ message = <<>>
    /\ scanning = FALSE
    /\ sending = FALSE
    /\ devices = <<>>
    /\ modalVisible = FALSE
    /\ scanSub = 0
    /\ scans = <<>>
    /\ conns = <<>>
    /\ sends = <<>>
    /\ event = Ev("init", NoCall, NoCall, NoAlert)
    /\ calls = 0
    /\ adverts = 0

\* any sequence of onChangeMessage and handleSend calls, with the transport's
\* answers to the writes
NextCompose ==
    \/ \E t \in Inputs : onChangeMessage(t)
    \/ handleSend
    \/ \E id \in DeviceIds : LinkDrop(id)
    \/ \E i \in DOMAIN sends :
        \/ WriteAck(i)
        \/ \E e \in Errors : WriteError(i, e)
        \/ SendTimeout(i)

SpecCompose == InitSession /\ [][NextCompose]_vars

----------------------------------------------------------------------------
(* Properties *)

\* the first advertisement of id in ads
FirstAd(ads, id) ==
    ads[CHOOSE k \in DOMAIN ads :
            ads[k].id = id /\ \A j \in 1..(k - 1) : ads[j].id # id]

NoDuplicateIds(list) ==
    \A a, b \in DOMAIN list : list[a].id = list[b].id => a = b

WritesInFlight(id) ==
    {i \in DOMAIN sends : sends[i].write = "inflight" /\ sends[i].dev.id = id}

AwaitingRace == {i \in DOMAIN sends : sends[i].race = "pending"}

\* C1: whatever advertisements one scanForDevices call received, the list it
\* resolves with (and handleScan stores) holds at most one device per id, holds
\* every advertised id, and the device kept for an id is its first advertisement.
C1_ScanDedupe ==
    event.task = "ScanTimeout" /\ event.call.state = "resolved" =>
        LET list == event.call.result
            ads == event.was.ads
        IN  /\ NoDuplicateIds(list)
            /\ Ids(list) = Ids(ads) \ {NoDevice.id}
            /\ \A a \in DOMAIN list : list[a] = FirstAd(ads, list[a].id)
            /\ devices = list

\* a scan resolved after an id was advertised twice under different names
C1_Witness ==
    /\ event.task = "ScanTimeout"
    /\ event.call.state = "resolved"
    /\ \E j, k \in DOMAIN event.was.ads :
        /\ j < k
        /\ event.was.ads[j].id = event.was.ads[k].id
        /\ event.was.ads[j].name # event.was.ads[k].name
        /\ event.was.ads[j] # NoDevice

\* C2: when the timer of a scanForDevices call has fired the call is settled,
\* whatever it received; a call that received no advertisement and no error
\* resolves with the empty list, and nothing is reported as a failure.
C2_ScanSettles ==
    event.task = "ScanTimeout" =>
        /\ event.call.state \in {"resolved", "rejected"}
        /\ ~event.call.timer
        /\ (event.was.ads = <<>> /\ event.was.state = "pending" =>
                /\ event.call.state = "resolved"
                /\ event.call.result = <<>>
                /\ event.alert = NoAlert
                /\ devices = <<>>
                /\ ~scanning)

\* a scan that received nothing resolved with the empty list
C2_Witness ==
    /\ event.task = "ScanTimeout"
    /\ event.was.ads = <<>>
    /\ event.was.state = "pending"
    /\ event.call.state = "resolved"
    /\ event.call.result = <<>>

\* C3: a scan error rejects the call in the step that reports it, while the
\* call's timer is still set, and stops the scan; in that step and when the timer
\* of the rejected call fires later, the device list and the picker are left as
\* they were.
C3_ScanErrorDiscards ==
    [][ /\ (event'.task = "ScanError" =>
                /\ event'.was.state = "pending"
                /\ event'.call.state = "rejected"
                /\ event'.call.timer
                /\ event'.alert # NoAlert
                /\ scanSub' = 0
                /\ ~scanning'
                /\ devices' = devices
                /\ modalVisible' = modalVisible)
        /\ (event'.task = "ScanTimeout" /\ event'.was.state = "rejected" =>
                /\ event'.call.state = "rejected"
                /\ devices' = devices
                /\ modalVisible' = modalVisible) ]_vars

\* the timer of a call fired that had collected a device and was then rejected
C3_Witness ==
    /\ event.task = "ScanTimeout"
    /\ event.was.state = "rejected"
    /\ event.was.found # <<>>

\* C4: device becomes a (different) non-null handle only in the step in which
\* the discovery of a call succeeds whose connect had succeeded, and then
\* connected is true; when connect or discovery fails the call is rejected with
\* the transport's error, the alert shows it, and device = null and
\* connected = false afterwards.
C4_HandleOnlyWhenReady ==
    /\ [](connected <=> device # NoDevice)
    /\ [](event.task = "SelectFailed" =>
            /\ event.call.pc = "rejected"
            /\ event.call.error \in Errors
            /\ event.alert = Alert("Bluetooth",
                    AlertMessage(event.call.error, "Failed to connect"))
            /\ device = NoDevice
            /\ ~connected)
    /\ [][ device' # device /\ device' # NoDevice =>
            /\ event'.task = "SelectSucceeded"
            /\ event'.was.pc = "discovering"
            /\ event'.was.dev = device'
            /\ event'.was.dev.id \in linked
            /\ connected' ]_vars

\* discovery failed after the connect had succeeded, and no handle is exposed
C4_Witness ==
    /\ event.task = "SelectFailed"
    /\ event.was.pc = "discovering"
    /\ device = NoDevice

\* C5 (as claimed): a handleSend call with a session is rejected with an alert
\* exactly when the text is empty after trimming or its trimmed length exceeds
\* MAX_LEN, and a rejected send issues no write.
C5_ValidationReported ==
    event.task = "handleSend" /\ event.call.dev # NoDevice =>
        LET trimmed == Trim(event.call.text)
            invalid == trimmed = <<>> \/ Len(trimmed) > MAX_LEN
        IN  /\ invalid <=> (event.alert # NoAlert /\ event.call.race = "invalid")
            /\ invalid => event.call.write = "none"

\* C6: a send whose timer has not fired is the only kind that still awaits its
\* race; when the timer fires while the write is still in flight, the alert
\* "Send timed out" is raised in that step and sending is false afterwards,
\* although the write stays unresolved.
C6_SendSettles ==
    /\ \A i \in DOMAIN sends : sends[i].race = "pending" => sends[i].timer
    /\ (event.task = "SendTimeout" /\ event.was.write = "inflight" =>
            /\ event.call.race = "rejected"
            /\ event.call.write = "inflight"
            /\ event.alert = Alert("Send failed", "Send timed out")
            /\ ~sending)

\* a send timed out and its write is still unresolved
C6_Witness ==
    /\ event.task = "SendTimeout"
    /\ event.was.write = "inflight"
    /\ \E i \in DOMAIN sends : sends[i] = event.call /\ sends[i].write = "inflight"

\* C7: a race resolves (and the message is cleared) only in the step in which
\* the write is acknowledged while the timer is still set; an acknowledgement or
\* a write error that arrives after the race was settled changes neither the
\* outcome nor message, sending, connected or device, and raises no alert.
C7_LateWriteIgnored ==
    [][ /\ (/\ event'.task \in {"WriteAck", "WriteError", "SendTimeout"}
            /\ event'.call.race = "resolved"
            /\ event'.was.race # "resolved"
            => /\ event'.task = "WriteAck"
               /\ event'.was.race = "pending"
               /\ event'.was.timer
               /\ message' = <<>>)
        /\ (/\ event'.task \in {"WriteAck", "WriteError"}
            /\ event'.was.race # "pending"
            => /\ event'.call.race = event'.was.race
               /\ event'.call.error = event'.was.error
               /\ event'.alert = NoAlert
               /\ UNCHANGED <<message, sending, connected, device>>) ]_vars

\* a write was acknowledged after its send had been reported as timed out
C7_Witness ==
    /\ event.task = "WriteAck"
    /\ event.was.race = "rejected"
    /\ event.was.error = TimedOut
    /\ event.call.race = "rejected"

\* C8 (as claimed): a handleSend call without a session raises an alert.
C8_NoSessionReported ==
    event.task = "handleSend" /\ event.call.dev = NoDevice =>
        event.alert # NoAlert

\* C9 (as claimed): when a send fails while the link of its peer is down, the
\* screen shows the session as gone afterwards.
C9_FailedSendDisconnects ==
    /\ event.task \in {"WriteError", "SendTimeout"}
    /\ event.was.race = "pending"
    /\ event.call.race = "rejected"
    /\ event.call.dev.id \notin linked
    => ~connected /\ device = NoDevice

\* C10 (as claimed): at most one write is in flight for a peer at any time.
C10_OneWriteInFlight ==
    \A id \in DeviceIds : Cardinality(WritesInFlight(id)) <= 1

\* C10 (amended): at most one handleSend call awaits its race at any time, and
\* sending is true exactly then; of two writes in flight the older one belongs
\* to a send that was reported as timed out.
C10_OneSendAwaited ==
    /\ Cardinality(AwaitingRace) <= 1
    /\ sending <=> AwaitingRace # {}
    /\ \A i, j \in DOMAIN sends :
        i < j /\ sends[i].write = "inflight" /\ sends[j].write = "inflight" =>
            sends[i].race = "rejected" /\ sends[i].error = TimedOut

\* two writes are in flight for the connected peer
C10_Witness ==
    /\ device # NoDevice
    /\ Cardinality(WritesInFlight(device.id)) = 2

\* C11: a write error that the transport reports while the race is pending (the
\* timer has not fired) rejects the race in that step with the transport's
\* error; the "Send failed" alert raised in that step shows the error's message
\* (or the fallback text when it has none), which is never the text of the
\* timeout, and sending is false afterwards.
C11_WriteErrorSurfaced ==
    event.task = "WriteError" /\ event.was.race = "pending" =>
        /\ event.was.timer
        /\ event.call.race = "rejected"
        /\ event.call.error \in Errors
        /\ event.alert = Alert("Send failed",
                AlertMessage(event.call.error, "Message was not received in time."))
        /\ event.alert.message # TimedOut.message
        /\ ~sending

\* a write error without a message was reported before the timer fired
C11_Witness ==
    /\ event.task = "WriteError"
    /\ event.was.race = "pending"
    /\ event.call.error.message = Undefined
    /\ event.alert # NoAlert

\* the first advertisements per id of ads[k..], in the order delivered
RECURSIVE FirstSeenFrom(_, _)
FirstSeenFrom(ads, k) ==
    IF k > Len(ads) THEN <<>>
    ELSE (IF ads[k] # NoDevice /\ \A j \in 1..(k - 1) : ads[j].id # ads[k].id
          THEN <<ads[k]>> ELSE <<>>) \o FirstSeenFrom(ads, k + 1)

\* C12 (as claimed): the list a scanForDevices call resolves with is the
\* sequence of the first advertisements per id in the order the transport
\* delivered them, whatever the ids are.
C12_FirstSeenOrder ==
    event.task = "ScanTimeout" /\ event.call.state = "resolved" =>
        event.call.result = FirstSeenFrom(event.was.ads, 1)

\* C13: the timer callback stops the scan whatever the state of its call, so no
\* scan is active after it; the scan that is active always belongs to a call
\* that is still pending with its timer set (never to a call settled by its
\* timer or by an error); an advertisement is delivered to a pending call only
\* and leaves the list the screen was given as it is.
C13_ScanStopped ==
    /\ [](event.task = "ScanTimeout" => scanSub = 0 /\ ~event.call.timer)
    /\ [](scanSub # 0 =>
            /\ scanSub \in DOMAIN scans
            /\ scans[scanSub].state = "pending"
            /\ scans[scanSub].timer)
    /\ [][ event'.task = "ScanAdvertise" =>
            /\ event'.was.state = "pending"
            /\ event'.call.state = "pending"
            /\ devices' = devices ]_vars

\* the timer of a pending call fired that had collected a device: the scan is
\* stopped and the screen has the list
C13_Witness ==
    /\ event.task = "ScanTimeout"
    /\ event.was.state = "pending"
    /\ event.was.found # <<>>
    /\ scanSub = 0
    /\ devices = event.call.result
    /\ devices # <<>>

\* C14: the step in which a send fails (a write error or the timer rejects the
\* pending race) leaves device, connected and message as they were; the message
\* is still the text the send was called with, and when the screen shows a
\* session afterwards the Send button is enabled again.
C14_FailedSendKeepsHandle ==
    [][ /\ event'.task \in {"WriteError", "SendTimeout"}
        /\ event'.was.race = "pending"
        /\ event'.call.race = "rejected"
        => /\ UNCHANGED <<device, connected, message>>
           /\ message' = event'.call.text
           /\ (connected' => ~SendDisabled') ]_vars

\* a send failed with a write error and the session and the message are kept
C14_Witness ==
    /\ event.task = "WriteError"
    /\ event.was.race = "pending"
    /\ connected
    /\ device = event.call.dev
    /\ message = event.call.text
    /\ ~SendDisabled

\* atob: the bytes of a base64 text given as indices into the alphabet
Atob(p) ==
    LET pads == IF p = <<>> THEN 0
                ELSE (IF p[Len(p)] = Pad THEN 1 ELSE 0)
                        + (IF p[Len(p) - 1] = Pad THEN 1 ELSE 0)
    IN  [m \in 1..(3 * (Len(p) \div 4) - pads) |->
            LET g == 4 * ((m - 1) \div 3)
                c == (m - 1) % 3
            IN  IF c = 0 THEN (p[g + 1] * 4) + (p[g + 2] \div 16)
                ELSE IF c = 1 THEN ((p[g + 2] % 16) * 16) + (p[g + 3] \div 4)
                ELSE ((p[g + 3] % 4) * 64) + p[g + 4]]

\* the string that well-formed UTF-8 bytes decode to: the code units are
\* listed at the first byte of each code point
TextDecode(b) ==
    LET low(k) == b[k] - 128
        units == [k \in DOMAIN b |->
            IF b[k] < 128 THEN <<b[k]>>
            ELSE IF b[k] < 192 THEN <<>>
            ELSE IF b[k] < 224 THEN <<((b[k] - 192) * 64) + low(k + 1)>>
            ELSE IF b[k] < 240
            THEN <<((b[k] - 224) * 4096) + (low(k + 1) * 64) + low(k + 2)>>
            ELSE LET cp == ((b[k] - 240) * 262144) + (low(k + 1) * 4096)
                                + (low(k + 2) * 64) + low(k + 3)
                 IN  <<55296 + ((cp - 65536) \div 1024),
                       56320 + ((cp - 65536) % 1024)>>]
    IN  Concat(units, 1, Len(b))

\* C15 (as claimed): the payload a handleSend call hands to the write decodes
\* (base64, then UTF-8) to the text it was called to send.
C15_PayloadRoundTrip ==
    event.task = "handleSend" /\ event.call.race = "pending" =>
        TextDecode(Atob(event.call.payload)) = event.call.msg

\* C16: every scanForDevices call has made one startDeviceScan call, every
\* connectToDevice call one connect() call and one discovery call once connect
\* has resolved (none before), every handleSend call one write when it reached
\* sendMessageToDevice and none when it returned before; a call that failed or
\* timed out is over with these counts: it is not among the calls awaiting the
\* transport again.
C16_NoRetries ==
    /\ \A i \in DOMAIN scans : scans[i].starts = 1
    /\ \A i \in DOMAIN conns :
        /\ conns[i].connects = 1
        /\ conns[i].discovers = IF conns[i].pc = "discovering" THEN 1 ELSE 0
    /\ \A i \in DOMAIN sends : sends[i].writes = 1
    /\ (event.task \in {"ScanError", "ScanTimeout"} => event.call.starts = 1)
    /\ (event.task \in {"SelectFailed", "SelectSucceeded"} =>
            /\ event.call.connects = 1
            /\ event.call.discovers = IF event.was.pc = "discovering" THEN 1 ELSE 0
            /\ Len(conns) < calls)
    /\ (event.task \in {"WriteError", "SendTimeout", "WriteAck"} =>
            /\ event.call.writes = 1
            /\ event.call.write \in {"inflight", "acked", "errored"})
    /\ (event.task = "handleSend" =>
            event.call.writes = IF event.call.race = "pending" THEN 1 ELSE 0)

\* a connection attempt was rejected by the transport: the call failed after
\* its one attempt
C16_Witness ==
    /\ event.task = "SelectFailed"
    /\ event.was.pc = "connecting"
    /\ event.call.pc = "rejected"
    /\ event.call.connects = 1
    /\ event.call.discovers = 0

\* C17 (as claimed): when the timer callback of a scanForDevices call runs its
\* stopDeviceScan, the scan that is active (if any) is the one this call
\* started, never the scan of a later call.
C17_NoForeignStop ==
    [][ event'.task = "ScanTimeout" /\ scanSub # 0 => scanSub = 1 ]_vars

\* C18 (as claimed): when a handleSelectDevice call settles after a call made
\* later than it is over, it leaves device and connected as they are.
C18_LatestConnectionWins ==
    [][ event'.task \in {"SelectFailed", "SelectSucceeded"} /\ event'.was.overtaken
            => UNCHANGED <<device, connected>> ]_vars

\* what handleSend may pass to sendMessageToDevice: a text that is not empty,
\* has no white space at either end and holds at most MAX_LEN code units
Sendable(msg) ==
    /\ msg # <<>>
    /\ Len(msg) <= MAX_LEN
    /\ msg[1] \notin WhiteSpace
    /\ msg[Len(msg)] \notin WhiteSpace

\* C19: whatever onChangeMessage and handleSend calls were made, message holds
\* at most MAX_LEN code units; after onChangeMessage(text) it is the first
\* MAX_LEN code units of text (all of text when it is not longer); every text a
\* handleSend call passed to sendMessageToDevice is sendable, and no handleSend
\* call ends in the "Message too long" rejection.
C19_MessageCapped ==
    /\ Len(message) <= MAX_LEN
    /\ (event.task = "onChangeMessage" =>
            /\ Len(event.call.text) <= MAX_LEN => message = event.call.text
            /\ Len(event.call.text) > MAX_LEN =>
                    message = SubSeq(event.call.text, 1, MAX_LEN))
    /\ (event.task = "handleSend" =>
            /\ event.call.race # "invalid"
            /\ event.alert = NoAlert
            /\ event.call.race = "pending" => Sendable(event.call.msg))
    /\ \A i \in DOMAIN sends : Sendable(sends[i].msg)

\* a text longer than MAX_LEN was entered and what was kept of it is sent
C19_Witness ==
    /\ event.task = "handleSend"
    /\ event.call.race = "pending"
    /\ Len(event.call.text) = MAX_LEN
    /\ Len(event.call.msg) = MAX_LEN - 1

====
